---- MODULE Spec2Model ----
(***************************************************************************)
(* State machine of the UI Copilot front end (src/frontend/src/App.tsx)    *)
(* and of the policy validator (src/backend/validator/validate.js), with   *)
(* the normalizers of the two other builds of the front end kept in        *)
(* src/unnamed/part_000.                                                   *)
(*                                                                         *)
(* A source text is a sequence of lexemes (strings); whitespace lexemes    *)
(* are " " and "\n".  The empty sequence is the empty string.              *)
(*                                                                         *)
(* React runs every event handler to completion and re-renders before the  *)
(* next event is delivered, so each handler is one atomic action; the only *)
(* suspension point is the awaited fetch of the two generation handlers,   *)
(* which are split into a start action and a resolve action.  A handler    *)
(* closes over the values of the render in which it was created: the       *)
(* continuation of a generation handler therefore calls commitToHistory    *)
(* with the historyIndex of the render in which the button was clicked.    *)
(*                                                                         *)
(* Spec is the application and SpecLive the application with every        *)
(* awaited fetch settling.  SpecValidate and SpecNormalize apply the pure  *)
(* functions (the validator; the normalization of the three builds of the  *)
(* front end) to every text of a bounded set.                              *)
(***************************************************************************)
EXTENDS Integers, Sequences, FiniteSets, TLC

VARIABLES generatedCode, editableCode, loading, visionLoading, screenshotFile,
          history, historyIndex, previewError, promptClosure, visionClosure,
          op, undone, response,
          source, isDark, stage, result

\* The state of the application.
appVars == <<generatedCode, editableCode, loading, visionLoading,
             screenshotFile, history, historyIndex, previewError,
             promptClosure, visionClosure, op, undone, response>>

\* The argument and the result of one call of a pure function (validate,
\* the validator's command line, the normalization of one of the builds):
\* source and isDark are the arguments, stage tells which function ran and
\* result is what it delivered.
callVars == <<source, isDark, stage, result>>

vars == <<generatedCode, editableCode, loading, visionLoading, screenshotFile,
          history, historyIndex, previewError, promptClosure, visionClosure,
          op, undone, response, source, isDark, stage, result>>

\* ---------------------------------------------------------------- bounds
\* Longest history log the model builds.
MaxHistory == 3

\* ----------------------------------------------------------- source texts
EmptyText == <<>>

BlankText == <<" ", "\n">>

SafeText == <<"export", " ", "default", " ", "function", " ",
              "GeneratedComponent", "(", ")", "{", "useState", "(", ")", "}">>

UnsafeText == <<"function", " ", "GeneratedComponent", "(", ")", "{",
                "eval", "(", ")", "}">>

\* Texts the editor can hold.
Texts == {EmptyText, BlankText, SafeText, UnsafeText}

\* Values of the code field of a generation response (EmptyText: the field
\* is missing or the empty string).
GeneratedTexts == {EmptyText, SafeText, UnsafeText}

\* The value of result before a function ran, and of an output that was
\* not written.
NoResult == [kind |-> "none"]

\* ------------------------------------------------------- string helpers
\* The lexeme of a triple-backtick fence marker (a TLA+ string cannot hold a
\* backtick).
Fence == "<fence>"

IsWhitespace(lexeme) == lexeme \in {" ", "\n", "\t"}

\* String.prototype.trim() applied to a text, tested for emptiness:
\* !text.trim()
TrimIsEmpty(text) == \A i \in 1..Len(text) : IsWhitespace(text[i])

\* JavaScript truthiness of a string: the empty string is falsy.
Truthy(text) == Len(text) > 0

\* Number of consecutive whitespace lexemes of s from position i on: the
\* extent of a greedy \s* at i.
RECURSIVE WsRun(_, _)
WsRun(s, i) ==
    IF i <= Len(s) /\ IsWhitespace(s[i]) THEN 1 + WsRun(s, i + 1) ELSE 0

\* s with its leading whitespace lexemes removed.
RECURSIVE TrimStart(_)
TrimStart(s) ==
    IF Len(s) > 0 /\ IsWhitespace(s[1]) THEN TrimStart(Tail(s)) ELSE s

\* s with its trailing whitespace lexemes removed.
RECURSIVE TrimEnd(_)
TrimEnd(s) ==
    IF Len(s) > 0 /\ IsWhitespace(s[Len(s)])
    THEN TrimEnd(SubSeq(s, 1, Len(s) - 1))
    ELSE s

\* String.prototype.trim().
Trim(s) == TrimEnd(TrimStart(s))

\* s.split("\n"): the lines of s, without the separators.
RECURSIVE SplitLines(_)
SplitLines(s) ==
    IF \A i \in 1..Len(s) : s[i] # "\n"
    THEN <<s>>
    ELSE LET k == CHOOSE i \in 1..Len(s) :
                      s[i] = "\n" /\ \A j \in 1..(i - 1) : s[j] # "\n"
         IN <<SubSeq(s, 1, k - 1)>> \o SplitLines(SubSeq(s, k + 1, Len(s)))

\* lines.join("\n").
RECURSIVE JoinLines(_)
JoinLines(lines) ==
    IF Len(lines) = 0 THEN <<>>
    ELSE IF Len(lines) = 1 THEN lines[1]
    ELSE lines[1] \o <<"\n">> \o JoinLines(Tail(lines))

\* ------------------------------------------------ normalizeGeneratedCode
\* The predicate of the line filter: the trimmed line starts neither with a
\* fence marker nor with "import ".
KeepLine(line) ==
    LET trimmed == Trim(line)
    IN /\ ~(Len(trimmed) >= 1 /\ trimmed[1] = Fence)
       /\ ~(Len(trimmed) >= 2 /\ trimmed[1] = "import" /\ trimmed[2] = " ")

\* raw.split("\n").filter(...).join("\n")
DropImportAndFenceLines(raw) ==
    JoinLines(SelectSeq(SplitLines(raw), KeepLine))

\* Length of the match of /export\s+default\s+/ at position i of s, 0 when
\* there is none.
MatchExportDefault(s, i) ==
    IF i <= Len(s) /\ s[i] = "export" /\ WsRun(s, i + 1) >= 1
    THEN LET d == i + 1 + WsRun(s, i + 1)
         IN IF d <= Len(s) /\ s[d] = "default" /\ WsRun(s, d + 1) >= 1
            THEN d + 1 + WsRun(s, d + 1) - i
            ELSE 0
    ELSE 0

\* Length of the match of
\* /export\s+default\s+function\s+GeneratedComponent\s*\(/ at position i of
\* s, 0 when there is none.
MatchExportDefaultFunction(s, i) ==
    LET m == MatchExportDefault(s, i)
        f == i + m
    IN IF m > 0 /\ f <= Len(s) /\ s[f] = "function" /\ WsRun(s, f + 1) >= 1
       THEN LET g == f + 1 + WsRun(s, f + 1)
            IN IF g <= Len(s) /\ s[g] = "GeneratedComponent"
               THEN LET q == g + 1 + WsRun(s, g + 1)
                    IN IF q <= Len(s) /\ s[q] = "(" THEN q + 1 - i ELSE 0
               ELSE 0
       ELSE 0

\* code.replace(/export\s+default\s+function\s+GeneratedComponent\s*\(/,
\*              "function GeneratedComponent("): the first match only.
ReplaceExportDefaultFunction(s) ==
    IF \A i \in 1..Len(s) : MatchExportDefaultFunction(s, i) = 0
    THEN s
    ELSE LET k == CHOOSE i \in 1..Len(s) :
                      /\ MatchExportDefaultFunction(s, i) > 0
                      /\ \A j \in 1..(i - 1) : MatchExportDefaultFunction(s, j) = 0
             m == MatchExportDefaultFunction(s, k)
         IN SubSeq(s, 1, k - 1)
            \o <<"function", " ", "GeneratedComponent", "(">>
            \o SubSeq(s, k + m, Len(s))

\* code.replace(/export\s+default\s+/g, ""): every match of one
\* left-to-right pass, from position i on.
RECURSIVE RemoveExportDefault(_, _)
RemoveExportDefault(s, i) ==
    IF i > Len(s) THEN <<>>
    ELSE IF MatchExportDefault(s, i) > 0
    THEN RemoveExportDefault(s, i + MatchExportDefault(s, i))
    ELSE <<s[i]>> \o RemoveExportDefault(s, i + 1)

\* The hook names of the seven replace calls.
HookNames == {"useState", "useEffect", "useCallback", "useMemo", "useRef",
              "useContext", "useReducer"}

\* code.replace(/(?<!React\.)\buseX\b/g, "React.useX") for the seven hooks:
\* a hook lexeme not directly preceded by "React" "." gets the prefix.
RECURSIVE QualifyHooks(_, _)
QualifyHooks(s, i) ==
    IF i > Len(s) THEN <<>>
    ELSE IF /\ s[i] \in HookNames
            /\ ~(i >= 3 /\ s[i - 2] = "React" /\ s[i - 1] = ".")
    THEN <<"React", ".", s[i]>> \o QualifyHooks(s, i + 1)
    ELSE <<s[i]>> \o QualifyHooks(s, i + 1)

\* normalizeGeneratedCode of App.tsx.
normalizeGeneratedCode(raw) ==
    IF ~Truthy(raw) THEN <<>>
    ELSE Trim(QualifyHooks(
             RemoveExportDefault(
                 ReplaceExportDefaultFunction(DropImportAndFenceLines(raw)), 1), 1))

\* The text previewCode appends to the cleaned code.
RenderCall == <<"\n", "render", "(", "<", "GeneratedComponent", " ", "/", ">",
                ")", ";">>

\* The useMemo body of previewCode.
previewCode(code) ==
    IF TrimIsEmpty(code) THEN <<>>
    ELSE Trim(normalizeGeneratedCode(code) \o RenderCall)

\* The preview pane mounts LiveProvider with code = previewCode when
\* previewCode is truthy.
SandboxReceives(code) == Truthy(previewCode(code))

\* The keys of reactLiveScope, the scope App.tsx hands to LiveProvider.
reactLiveScope ==
    {"React", "useState", "useEffect", "useCallback", "useMemo", "useRef",
     "useContext", "useReducer", "createElement", "Fragment", "Component",
     "createContext", "forwardRef", "memo", "Children", "cloneElement",
     "isValidElement"}

\* ------------------------------------ the build with fence extraction
\* The utility-class literals of the theme replacements.
ClassLiterals == {"text-black", "text-white", "text-slate-50",
                  "text-slate-900", "text-slate-600", "text-sm", "bg-white",
                  "bg-slate-900", "bg-slate-100"}

\* A lexeme made of letters only, which [a-zA-Z]+ matches as a whole.
IsWord(lexeme) ==
    /\ ~IsWhitespace(lexeme)
    /\ lexeme \notin {"(", ")", "{", "}", "[", "]", ".", ",", ";", "<", ">",
                      "/", "=", "=>", "'", "'react'", "'fs'", "'window'",
                      "'localStorage'", "'1'", "0", Fence}
    /\ lexeme \notin ClassLiterals

\* The positions of the fence markers of s.
FencePositions(s) == { i \in 1..Len(s) : s[i] = Fence }

\* code.match(/<fence>(?:[a-zA-Z]+)?\s*([\s\S]*?)<fence>/) finds a match:
\* a marker with another marker after it.
HasFenceMatch(s) == Cardinality(FencePositions(s)) >= 2

\* fenceMatch[1]: what stands between the first marker and the next one,
\* after the optional tag and the whitespace behind it.
FenceContent(s) ==
    LET open  == CHOOSE i \in FencePositions(s) :
                     \A j \in FencePositions(s) : i <= j
        close == CHOOSE i \in FencePositions(s) \ {open} :
                     \A j \in FencePositions(s) \ {open} : i <= j
        tagged == IF open + 1 < close /\ IsWord(s[open + 1])
                  THEN open + 2 ELSE open + 1
        from   == tagged + WsRun(s, tagged)
    IN SubSeq(s, from, close - 1)

\* The predicate of the line filter of the build with fence extraction.
KeepLineFenceBuild(line) ==
    LET trimmed == Trim(line)
    IN /\ ~(Len(trimmed) >= 1 /\ trimmed[1] = Fence)
       /\ ~(Len(trimmed) >= 2 /\ trimmed[1] = "import" /\ trimmed[2] = " ")
       /\ ~(/\ Len(trimmed) >= 3 /\ trimmed[1] = "export" /\ trimmed[2] = " "
            /\ trimmed[3] = "{")

\* normalizeGeneratedCode of the build with fence extraction.
normalizeGeneratedCodeFenceBuild(raw) ==
    IF ~Truthy(raw) THEN <<>>
    ELSE LET code == IF HasFenceMatch(raw) THEN FenceContent(raw) ELSE raw
             kept == JoinLines(SelectSeq(SplitLines(code), KeepLineFenceBuild))
         IN Trim(RemoveExportDefault(ReplaceExportDefaultFunction(kept), 1))

\* code.replace(/from/g, to) for a literal that is one lexeme.
ReplaceLiteral(s, from, to) ==
    [i \in 1..Len(s) |-> IF s[i] = from THEN to ELSE s[i]]

\* adaptCodeForTheme(code, isDark).
adaptCodeForTheme(code, dark) ==
    IF ~Truthy(code) THEN code
    ELSE IF dark
    THEN ReplaceLiteral(ReplaceLiteral(code, "text-black", "text-slate-50"),
                        "bg-white", "bg-slate-900")
    ELSE ReplaceLiteral(ReplaceLiteral(code, "text-white", "text-slate-900"),
                        "bg-slate-900", "bg-slate-100")

\* The markup previewCode of this build puts behind the themed code.
LastExpression == <<"\n", "\n", "<", "GeneratedComponent", " ", "/", ">">>

\* previewCode of the build with fence extraction.
previewCodeFenceBuild(code, dark) ==
    IF TrimIsEmpty(code) THEN <<>>
    ELSE adaptCodeForTheme(normalizeGeneratedCodeFenceBuild(code), dark)
         \o LastExpression

\* The keys of the scope this build hands to LiveProvider.
fenceBuildScope == {"React", "ReactDOM"}

\* ------------------------------------------- the build of expressions
\* The keys of reactScope.
reactScope == {"React", "ReactDOM", "motion"}

DEFAULT_SNIPPET ==
    <<"(", ")", " ", "=>", " ", "(", "\n",
      " ", "<", "div", " ", "className", "=", "'", "bg-slate-100", " ",
      "text-slate-900", "'", ">", "\n",
      " ", "<", "p", " ", "className", "=", "'", "text-sm", " ",
      "text-slate-600", "'", ">", "Generated", "<", "/", "p", ">", "\n",
      " ", "<", "/", "div", ">", "\n", ")">>

\* /function\s+GeneratedComponent\s*\(/.test(s)
DeclaresGeneratedComponent(s) ==
    \E i \in 1..Len(s) :
        /\ s[i] = "function" /\ WsRun(s, i + 1) >= 1
        /\ LET g == i + 1 + WsRun(s, i + 1)
           IN /\ g <= Len(s) /\ s[g] = "GeneratedComponent"
              /\ LET q == g + 1 + WsRun(s, g + 1)
                 IN q <= Len(s) /\ s[q] = "("

\* The expression this build puts behind a component declaration.
ComponentExpression ==
    <<"\n", "\n", "(", "(", ")", " ", "=>", " ", "<", "GeneratedComponent",
      " ", "/", ">", ")">>

\* normalizeGeneratedCode of the build of expressions.
normalizeGeneratedCodeExpressionBuild(raw) ==
    IF ~Truthy(raw) THEN DEFAULT_SNIPPET
    ELSE LET trimmed == Trim(raw)
             inner   == IF HasFenceMatch(trimmed)
                        THEN Trim(FenceContent(trimmed)) ELSE trimmed
             code    == ReplaceExportDefaultFunction(inner)
         IN IF DeclaresGeneratedComponent(code)
            THEN Trim(code \o ComponentExpression \o <<"\n", " ">>)
            ELSE IF /\ ~(Len(code) >= 1 /\ code[1] = "(")
                    /\ \E i \in 1..Len(code) : code[i] = "<"
            THEN <<"(", ")", " ", "=>", " ", "(", "\n">> \o code
                 \o <<"\n", ")">>
            ELSE IF Truthy(code) THEN code ELSE DEFAULT_SNIPPET

\* applyThemeContrastFix(code, isDark).
applyThemeContrastFix(code, dark) ==
    IF ~Truthy(code) THEN code
    ELSE IF dark THEN ReplaceLiteral(code, "text-black", "text-slate-50")
    ELSE ReplaceLiteral(code, "text-white", "text-slate-900")

\* previewCode of the build of expressions.
previewCodeExpressionBuild(code, dark) ==
    applyThemeContrastFix(normalizeGeneratedCodeExpressionBuild(code), dark)

\* ------------------------------------------------------------ validate.js
forbiddenIdentifiers == {"eval", "Function", "setTimeout", "setInterval"}

forbiddenMembers == {"dangerouslySetInnerHTML", "localStorage",
                     "sessionStorage", "window", "document"}

\* The allow list of the ImportDeclaration visitor.
allowedModules == {"react"}

Keywords == {"function", "return", "export", "default", "import", "from",
             "const", "let", "new"}

Punctuation == {"(", ")", "{", "}", "[", "]", ".", ",", ";", "<", ">", "/",
                "=", "=>", "'"}

\* The string literal lexemes and the values they denote.
StringLiteralValue ==
    ("'react'" :> "react") @@ ("'fs'" :> "fs") @@ ("'window'" :> "window")
    @@ ("'localStorage'" :> "localStorage") @@ ("'1'" :> "1")

IsStringLiteral(lexeme) == lexeme \in DOMAIN StringLiteralValue

\* An identifier lexeme.
IsName(lexeme) ==
    /\ ~IsWhitespace(lexeme)
    /\ lexeme \notin Keywords \cup Punctuation \cup {Fence}
    /\ ~IsStringLiteral(lexeme)

\* The name at position i is the tag name of a markup element, which the
\* parser turns into a JSXIdentifier node and not into an Identifier node.
IsJSXTagName(s, i) ==
    \/ i >= 2 /\ s[i - 1] = "<"
    \/ i >= 3 /\ s[i - 1] = "/" /\ s[i - 2] = "<"

\* Nesting of the brackets of s from position i on, open holding the
\* closers still expected.
RECURSIVE Balanced(_, _, _)
Balanced(s, i, open) ==
    IF i > Len(s) THEN open = <<>>
    ELSE IF s[i] = "(" THEN Balanced(s, i + 1, <<")">> \o open)
    ELSE IF s[i] = "{" THEN Balanced(s, i + 1, <<"}">> \o open)
    ELSE IF s[i] = "[" THEN Balanced(s, i + 1, <<"]">> \o open)
    ELSE IF s[i] \in {")", "}", "]"}
    THEN open # <<>> /\ open[1] = s[i] /\ Balanced(s, i + 1, Tail(open))
    ELSE Balanced(s, i + 1, open)

\* The string literals of the statement that starts at position i.
RECURSIVE StatementLiterals(_, _)
StatementLiterals(s, i) ==
    IF i > Len(s) \/ s[i] \in {"\n", ";"} THEN <<>>
    ELSE IF IsStringLiteral(s[i])
    THEN <<StringLiteralValue[s[i]]>> \o StatementLiterals(s, i + 1)
    ELSE StatementLiterals(s, i + 1)

\* parser.parse succeeds: no fence marker, brackets nest, and every import
\* declaration names its module.
Parses(code) ==
    /\ \A i \in 1..Len(code) : code[i] # Fence
    /\ Balanced(code, 1, <<>>)
    /\ \A i \in 1..Len(code) :
          code[i] = "import" => StatementLiterals(code, i) # <<>>

\* The name at position i is an attribute name of a markup element (a name
\* directly followed by "=" after an opening "<tag" that is not closed yet),
\* which the parser turns into a JSXIdentifier node as well.
IsJSXAttributeName(s, i) ==
    /\ i + 1 <= Len(s) /\ s[i + 1] = "="
    /\ \E j \in 1..(i - 2) :
          /\ s[j] = "<" /\ IsName(s[j + 1])
          /\ \A k \in (j + 1)..(i - 1) : s[k] # ">"

\* The name of the property of a member access whose property is not an
\* identifier: path.node.property.name is undefined.
NoName == "<undefined>"

\* The member accesses applied one after the other to the expression that
\* ends at position j, innermost first: .name, [name] and ['literal'].
RECURSIVE ChainMembers(_, _)
ChainMembers(s, j) ==
    IF j + 2 <= Len(s) /\ s[j + 1] = "." /\ IsName(s[j + 2])
    THEN <<[type |-> "MemberExpression", name |-> s[j + 2]]>>
         \o ChainMembers(s, j + 2)
    ELSE IF j + 3 <= Len(s) /\ s[j + 1] = "[" /\ s[j + 3] = "]" /\ IsName(s[j + 2])
    THEN <<[type |-> "MemberExpression", name |-> s[j + 2]]>>
         \o ChainMembers(s, j + 3)
    ELSE IF j + 3 <= Len(s) /\ s[j + 1] = "[" /\ s[j + 3] = "]"
            /\ IsStringLiteral(s[j + 2])
    THEN <<[type |-> "MemberExpression", name |-> NoName]>>
         \o ChainMembers(s, j + 3)
    ELSE <<>>

RECURSIVE Reverse(_)
Reverse(seq) ==
    IF seq = <<>> THEN <<>> ELSE Append(Reverse(Tail(seq)), seq[1])

\* The nodes parser.parse and traverse deliver to the three visitors, in the
\* pre-order of the visit, for the grammar of the texts of this model: an
\* import declaration comes before its specifiers, and the member accesses
\* of a chain a.b['c'].d come outermost first, before the identifier a and
\* the property identifiers b and d.  Tag and attribute names of markup are
\* JSXIdentifier nodes and string literals are StringLiteral nodes, for
\* which validate has no visitor.
RECURSIVE parse(_, _)
parse(s, i) ==
    IF i > Len(s) THEN <<>>
    ELSE (IF s[i] = "import"
          THEN <<[type |-> "ImportDeclaration",
                  name |-> StatementLiterals(s, i)[1]]>>
          ELSE IF IsName(s[i]) /\ ~IsJSXTagName(s, i) /\ ~IsJSXAttributeName(s, i)
          THEN (IF i >= 2 /\ s[i - 1] = "."
                THEN <<>>
                ELSE Reverse(ChainMembers(s, i)))
               \o <<[type |-> "Identifier", name |-> s[i]]>>
          ELSE <<>>)
         \o parse(s, i + 1)

visit_IdentifierCalleesOnly(verdict, node) ==
    IF node.type = "Identifier" /\ node.name \in {"eval", "Function"}
    THEN [safe |-> FALSE,
          reasons |-> Append(verdict.reasons,
                             [kind |-> "ForbiddenIdentifier", detail |-> node.name])]
    ELSE IF node.type = "MemberExpression" /\ node.name \in forbiddenMembers
    THEN [safe |-> FALSE,
          reasons |-> Append(verdict.reasons,
                             [kind |-> "ForbiddenMember", detail |-> node.name])]
    ELSE IF node.type = "ImportDeclaration" /\ node.name \notin allowedModules
    THEN [safe |-> FALSE,
          reasons |-> Append(verdict.reasons,
                             [kind |-> "ForbiddenImport", detail |-> node.name])]
    ELSE verdict

visit_EveryImportForbidden(verdict, node) ==
    IF node.type = "Identifier" /\ node.name \in forbiddenIdentifiers
    THEN [safe |-> FALSE,
          reasons |-> Append(verdict.reasons,
                             [kind |-> "ForbiddenIdentifier", detail |-> node.name])]
    ELSE IF node.type = "MemberExpression" /\ node.name \in forbiddenMembers
    THEN [safe |-> FALSE,
          reasons |-> Append(verdict.reasons,
                             [kind |-> "ForbiddenMember", detail |-> node.name])]
    ELSE IF node.type = "ImportDeclaration"
    THEN [safe |-> FALSE,
          reasons |-> Append(verdict.reasons,
                             [kind |-> "ForbiddenImport", detail |-> node.name])]
    ELSE verdict

visit_Unshift(verdict, node) ==
    IF node.type = "Identifier" /\ node.name \in forbiddenIdentifiers
    THEN [safe |-> FALSE,
          reasons |-> <<[kind |-> "ForbiddenIdentifier", detail |-> node.name]>>
                      \o verdict.reasons]
    ELSE IF node.type = "MemberExpression" /\ node.name \in forbiddenMembers
    THEN [safe |-> FALSE,
          reasons |-> <<[kind |-> "ForbiddenMember", detail |-> node.name]>>
                      \o verdict.reasons]
    ELSE IF node.type = "ImportDeclaration" /\ node.name \notin allowedModules
    THEN [safe |-> FALSE,
          reasons |-> <<[kind |-> "ForbiddenImport", detail |-> node.name]>>
                      \o verdict.reasons]
    ELSE verdict

\* The visitor that runs on node, applied to the verdict built so far.
visit(verdict, node) ==
    IF node.type = "Identifier" /\ node.name \in forbiddenIdentifiers
    THEN [safe |-> FALSE,
          reasons |-> Append(verdict.reasons,
                             [kind |-> "ForbiddenIdentifier", detail |-> node.name])]
    ELSE IF node.type = "MemberExpression" /\ node.name \in forbiddenMembers
    THEN [safe |-> FALSE,
          reasons |-> Append(verdict.reasons,
                             [kind |-> "ForbiddenMember", detail |-> node.name])]
    ELSE IF node.type = "ImportDeclaration" /\ node.name \notin allowedModules
    THEN [safe |-> FALSE,
          reasons |-> Append(verdict.reasons,
                             [kind |-> "ForbiddenImport", detail |-> node.name])]
    ELSE verdict

\* traverse(ast, visitors) from node i on.
RECURSIVE traverse(_, _, _)
traverse(nodes, i, verdict) ==
    IF i > Len(nodes) THEN verdict
    ELSE traverse(nodes, i + 1, visit(verdict, nodes[i]))

\* validate(code) for a code that parses.
validate(code) == traverse(parse(code, 1), 1, [safe |-> TRUE, reasons |-> <<>>])

\* validate(code) returns a verdict with safe = true.
ReturnsSafe(code) == Parses(code) /\ validate(code).safe

validateCall_CaughtAsRejection(code) ==
    IF Parses(code)
    THEN [kind |-> "verdict", safe |-> validate(code).safe,
          reasons |-> validate(code).reasons]
    ELSE [kind |-> "verdict", safe |-> FALSE, reasons |-> <<>>]

\* What a call of validate(code) delivers: parser.parse throws a SyntaxError
\* on a text it cannot parse and validate has no try, so the exception
\* reaches the caller; otherwise the verdict is returned.
validateCall(code) ==
    IF Parses(code)
    THEN [kind |-> "verdict", safe |-> validate(code).safe,
          reasons |-> validate(code).reasons]
    ELSE [kind |-> "throws"]

\* The command line: const result = validate(process.argv[2] || ""), then
\* console.log(JSON.stringify(result)).  An uncaught exception ends the
\* process with exit status 1 and nothing on the standard output.
validateCLI(code) ==
    IF validateCall(code).kind = "throws"
    THEN [kind |-> "exit", status |-> 1, stdout |-> NoResult]
    ELSE [kind |-> "exit", status |-> 0, stdout |-> validateCall(code)]

\* ------------------------------------------------------------- history
\* Value of a closure slot when no request is in flight.
NoClosure == -2

\* prev.slice(0, idx + 1) when idx addresses an entry of prev, else prev.
commitBase(prev, idx) ==
    IF idx >= 0 /\ idx < Len(prev) THEN SubSeq(prev, 1, idx + 1) ELSE prev

\* The updater of setHistory in commitToHistory: idx is the historyIndex the
\* callback closed over, prev the log at the time of the write.
commitToHistory(prev, idx, code) == Append(commitBase(prev, idx), code)

\* Faulty variants of undoIndex: the guard dropped, and the guard testing
\* idx < 0 instead of idx <= 0.
undoIndex_Unguarded(idx) == idx - 1

undoIndex_NoFloor(idx) == IF idx < 0 THEN idx ELSE idx - 1

\* The updater of setHistoryIndex in handleUndo.
undoIndex(idx) == IF idx <= 0 THEN idx ELSE idx - 1

\* Faulty variants of redoIndex: the upper guard testing idx >= length
\* instead of idx >= length - 1, and the upper comparison flipped.
redoIndex_OffByOne(idx, hist) ==
    IF idx < 0 \/ idx >= Len(hist) THEN idx ELSE idx + 1

redoIndex_Flipped(idx, hist) ==
    IF idx < 0 \/ idx <= Len(hist) - 1 THEN idx ELSE idx + 1

\* The updater of setHistoryIndex in handleRedo.
redoIndex(idx, hist) ==
    IF idx < 0 \/ idx >= Len(hist) - 1 THEN idx ELSE idx + 1

\* The value undefined, as a text no editor or service produces.
Undefined == <<"undefined">>

\* history[i] of the zero-based JavaScript array: undefined out of range.
At(hist, i) == IF i >= 0 /\ i < Len(hist) THEN hist[i + 1] ELSE Undefined

\* Record of the last operation, kept for stating the properties: op is the
\* handler that ran last, with "none" appended when it returned without
\* changing anything; undone holds the cursor and the snapshot that were
\* current before an undo that moved the cursor, and undone.redone is set by
\* the redo that immediately follows it.
NoUndo == [idx |-> -2, snap |-> EmptyText, redone |-> FALSE]

\* ------------------------------------------ generation service responses
\* What the awaited fetch can deliver: the promise rejects ("reject"), the
\* response has no JSON content type or its body is not JSON ("nonjson"),
\* or a JSON body is read ("json") with an optional error field and an
\* optional code field (EmptyText: no code, or the empty string).  ok is
\* res.ok, a status of 200 to 299; a rejected fetch has no response and so
\* no status.
Responses ==
    [kind : {"reject"}, ok : {FALSE}, error : {FALSE}, code : {EmptyText}]
    \cup [kind : {"nonjson"}, ok : BOOLEAN, error : {FALSE}, code : {EmptyText}]
    \cup [kind : {"json"}, ok : BOOLEAN, error : BOOLEAN, code : GeneratedTexts]

\* The value of response while the last step was not the arrival of one.
NoResponse == [kind |-> "none"]

\* The branch of handleGenerate / handleScreenshotGenerate that reaches
\* commitToHistory: the JSON body was read and data.code is truthy.
DeliversCode(resp) == resp.kind = "json" /\ Truthy(resp.code)

\* ----------------------------------------------------------------- Init
\* The state of the App component after its first render.
AppInit ==
    /\ generatedCode = EmptyText
    /\ editableCode = EmptyText
    /\ loading = FALSE
    /\ visionLoading = FALSE
    /\ screenshotFile = FALSE
    /\ history = <<>>
    /\ historyIndex = -1
    /\ previewError = "null"
    /\ promptClosure = NoClosure
    /\ visionClosure = NoClosure
    /\ op = "init"
    /\ undone = NoUndo
    /\ response = NoResponse

Init ==
    /\ AppInit
    /\ source = EmptyText
    /\ isDark = TRUE
    /\ stage = "app"
    /\ result = NoResult

\* -------------------------------------------------------------- actions
\* Editor onChange: setEditableCode(value ?? "").
EditorChange ==
    \E value \in Texts :
        /\ editableCode' = value
        /\ UNCHANGED callVars
        /\ op' = "edit"
        /\ undone' = NoUndo
        /\ response' = NoResponse
        /\ UNCHANGED <<generatedCode, loading, visionLoading, screenshotFile,
                       history, historyIndex, previewError, promptClosure,
                       visionClosure>>

\* handleScreenshotFileChange: setScreenshotFile(file), file or null.
handleScreenshotFileChange ==
    \E file \in BOOLEAN :
        /\ screenshotFile' = file
        /\ UNCHANGED callVars
        /\ op' = "file"
        /\ undone' = NoUndo
        /\ response' = NoResponse
        /\ UNCHANGED <<generatedCode, editableCode, loading, visionLoading,
                       history, historyIndex, previewError, promptClosure,
                       visionClosure>>

\* handleUndo: the updater returns idx unchanged when idx <= 0, otherwise
\* it sets the editor to history[idx - 1] and returns idx - 1.
handleUndo ==
    /\ UNCHANGED callVars
    /\ response' = NoResponse
    /\ historyIndex' = undoIndex(historyIndex)
    /\ editableCode' = IF historyIndex' = historyIndex THEN editableCode
                       ELSE At(history, historyIndex')
    /\ op' = IF historyIndex' = historyIndex THEN "undo none" ELSE "undo"
    /\ undone' = IF historyIndex > 0
                 THEN [idx |-> historyIndex, snap |-> At(history, historyIndex),
                       redone |-> FALSE]
                 ELSE NoUndo
    /\ UNCHANGED <<generatedCode, loading, visionLoading, screenshotFile,
                   history, previewError, promptClosure, visionClosure>>

\* handleRedo: the updater returns idx unchanged when idx < 0 or idx is the
\* last index, otherwise it sets the editor to history[idx + 1] and returns
\* idx + 1.
handleRedo ==
    /\ UNCHANGED callVars
    /\ response' = NoResponse
    /\ historyIndex' = redoIndex(historyIndex, history)
    /\ editableCode' = IF historyIndex' = historyIndex THEN editableCode
                       ELSE At(history, historyIndex')
    /\ op' = IF historyIndex' = historyIndex THEN "redo none" ELSE "redo"
    /\ undone' = IF undone # NoUndo /\ ~undone.redone
                 THEN [undone EXCEPT !.redone = TRUE]
                 ELSE NoUndo
    /\ UNCHANGED <<generatedCode, loading, visionLoading, screenshotFile,
                   history, previewError, promptClosure, visionClosure>>

\* Faulty variant of commitGuard: the trim forgotten.
commitGuard_NoTrim(code) == Truthy(code)

\* if (!editableCode.trim()) return
commitGuard(code) == ~TrimIsEmpty(code)

\* handleCommitSnapshot: the callback is rebuilt whenever commitToHistory
\* is, so the commitToHistory it calls closes over the current historyIndex.
handleCommitSnapshot ==
    /\ UNCHANGED callVars
    /\ response' = NoResponse
    /\ commitGuard(editableCode) => Len(commitBase(history, historyIndex)) < MaxHistory
    /\ IF commitGuard(editableCode)
       THEN /\ history' = commitToHistory(history, historyIndex, editableCode)
            /\ historyIndex' = Len(history') - 1
            /\ op' = "commit"
       ELSE /\ UNCHANGED <<history, historyIndex>>
            /\ op' = "commit none"
    /\ undone' = NoUndo
    /\ UNCHANGED <<generatedCode, editableCode, loading, visionLoading,
                   screenshotFile, previewError, promptClosure, visionClosure>>

\* handleGenerate up to the awaited fetch.  The button is disabled while
\* loading.  The continuation keeps the commitToHistory of this render.
handleGenerate ==
    /\ UNCHANGED callVars
    /\ response' = NoResponse
    /\ ~loading
    /\ loading' = TRUE
    /\ previewError' = "null"
    /\ promptClosure' = historyIndex
    /\ op' = "generate"
    /\ undone' = NoUndo
    /\ UNCHANGED <<generatedCode, editableCode, visionLoading, screenshotFile,
                   history, historyIndex, visionClosure>>

\* Faulty variant of loadingAfter: the flag cleared at the end of the try
\* block, which a thrown error skips.
loadingAfter_ClearedInTry(resp) == resp.kind \in {"reject", "nonjson"}

\* The loading flag after the handler is through with resp:
\* finally { setLoading(false) } / finally { setVisionLoading(false) }.
loadingAfter(resp) == FALSE

\* handleGenerate from the resolution of the fetch to the end of finally.
handleGenerateResolve ==
    /\ UNCHANGED callVars
    /\ loading
    /\ \E resp \in Responses :
        /\ DeliversCode(resp) => Len(commitBase(history, promptClosure)) < MaxHistory
        /\ previewError' =
              IF resp.kind \in {"reject", "nonjson"} THEN "err.message"
              ELSE IF resp.error THEN "data.error"
              ELSE previewError
        /\ IF DeliversCode(resp)
           THEN /\ generatedCode' = resp.code
                /\ editableCode' = resp.code
                /\ history' = commitToHistory(history, promptClosure, resp.code)
                /\ historyIndex' = Len(history') - 1
           ELSE IF resp.kind = "json"
           THEN /\ generatedCode' = EmptyText
                /\ editableCode' = EmptyText
                /\ UNCHANGED <<history, historyIndex>>
           ELSE UNCHANGED <<generatedCode, editableCode, history, historyIndex>>
        /\ op' = IF DeliversCode(resp) THEN "push" ELSE "nocode"
        /\ response' = resp
        /\ loading' = loadingAfter(resp)
    /\ promptClosure' = NoClosure
    /\ undone' = NoUndo
    /\ UNCHANGED <<visionLoading, screenshotFile, visionClosure>>

\* handleScreenshotGenerate up to the awaited fetch.  The button is disabled
\* without a file and while visionLoading, so the handler's own
\* "Please upload a screenshot first." branch is never taken.
handleScreenshotGenerate ==
    /\ UNCHANGED callVars
    /\ response' = NoResponse
    /\ screenshotFile
    /\ ~visionLoading
    /\ visionLoading' = TRUE
    /\ previewError' = "null"
    /\ visionClosure' = historyIndex
    /\ op' = "vision"
    /\ undone' = NoUndo
    /\ UNCHANGED <<generatedCode, editableCode, loading, screenshotFile,
                   history, historyIndex, promptClosure>>

\* handleScreenshotGenerate from the resolution of the fetch to the end of
\* finally.
handleScreenshotGenerateResolve ==
    /\ UNCHANGED callVars
    /\ visionLoading
    /\ \E resp \in Responses :
        /\ DeliversCode(resp) => Len(commitBase(history, visionClosure)) < MaxHistory
        /\ previewError' =
              IF resp.kind \in {"reject", "nonjson"} THEN "err.message"
              ELSE IF ~Truthy(resp.code) THEN "Vision model did not return code."
              ELSE previewError
        /\ IF DeliversCode(resp)
           THEN /\ generatedCode' = resp.code
                /\ editableCode' = resp.code
                /\ history' = commitToHistory(history, visionClosure, resp.code)
                /\ historyIndex' = Len(history') - 1
           ELSE UNCHANGED <<generatedCode, editableCode, history, historyIndex>>
        /\ op' = IF DeliversCode(resp) THEN "push" ELSE "nocode"
        /\ response' = resp
        /\ visionLoading' = loadingAfter(resp)
    /\ visionClosure' = NoClosure
    /\ undone' = NoUndo
    /\ UNCHANGED <<loading, screenshotFile, promptClosure>>

Next ==
    \/ EditorChange
    \/ handleScreenshotFileChange
    \/ handleGenerate
    \/ handleGenerateResolve
    \/ handleScreenshotGenerate
    \/ handleScreenshotGenerateResolve
    \/ handleUndo
    \/ handleRedo
    \/ handleCommitSnapshot

Spec == Init /\ [][Next]_vars

\* The application with every awaited fetch settling in the end: the
\* browser resolves or rejects the promise of each request, and the
\* continuation of the handler then runs.
SpecLive ==
    /\ Spec
    /\ WF_vars(handleGenerateResolve)
    /\ WF_vars(handleScreenshotGenerateResolve)

\* ------------------------------------------- the validator called alone
\* Statements the validator is called on: calls of and accesses to the
\* names of its lists, written in each notation (a forbidden member name as
\* the property, as the object and as a bare identifier), the two kinds of
\* import, markup, harmless statements, and a text the parser refuses.
Fragments ==
    { <<"eval", "(", "'1'", ")">>,
      <<"Function", "(", "'1'", ")">>,
      <<"obj", ".", "setInterval">>,
      <<"setTimeout", ".", "window">>,
      <<"window", ".", "localStorage">>,
      <<"window", "[", "'localStorage'", "]">>,
      <<"obj", "[", "document", "]">>,
      <<"obj", ".", "count", ".", "sessionStorage">>,
      <<"import", " ", "React", " ", "from", " ", "'react'">>,
      <<"import", " ", "fs", " ", "from", " ", "'fs'">>,
      <<"<", "div", " ", "dangerouslySetInnerHTML", "=", "{", "obj", "}",
        " ", "/", ">">>,
      <<"obj", ".", "count">>,
      <<"localStorage", ".", "getItem", "(", "obj", ")">>,
      <<"document", ".", "cookie">>,
      <<"window", ".", "location">>,
      <<"window">>,
      <<"(">> }

\* The largest number of statements of a text handed to the validator.
MaxFragments == 2

RECURSIVE JoinFragments(_)
JoinFragments(fs) ==
    IF fs = <<>> THEN <<>>
    ELSE IF Len(fs) = 1 THEN fs[1]
    ELSE fs[1] \o <<";", "\n">> \o JoinFragments(Tail(fs))

\* process.argv[2], the empty text when the argument is missing.
ValidatorInputs ==
    { JoinFragments(fs) :
        fs \in UNION { [1..n -> Fragments] : n \in 0..MaxFragments } }

InitValidate ==
    /\ AppInit
    /\ source \in ValidatorInputs
    /\ isDark = TRUE
    /\ stage = "input"
    /\ result = NoResult

\* A caller invokes validate(source).
CallValidate ==
    /\ stage = "input"
    /\ result' = validateCall(source)
    /\ stage' = "validate"
    /\ UNCHANGED <<source, isDark>>
    /\ UNCHANGED appVars

\* node validate.js "<source>".
RunCLI ==
    /\ stage = "input"
    /\ result' = validateCLI(source)
    /\ stage' = "cli"
    /\ UNCHANGED <<source, isDark>>
    /\ UNCHANGED appVars

NextValidate == CallValidate \/ RunCLI

SpecValidate == InitValidate /\ [][NextValidate]_vars

\* ------------------------------------------ the normalizers called alone
\* Pieces of the texts the normalizers are called on: components with and
\* without export default and hooks, bare markup with class literals,
\* import lines, repeated and unspaced export default, fenced blocks with
\* text around them, and a fence marker that is never closed.
Pieces ==
    { SafeText,
      <<"function", " ", "GeneratedComponent", "(", ")", "{", "React", ".",
        "useState", "(", ")", ";", "useEffect", "(", ")", "}">>,
      <<"<", "div", " ", "className", "=", "'", "text-black", " ",
        "bg-white", "'", ">", "hi", "<", "/", "div", ">">>,
      <<"<", "p", " ", "className", "=", "'", "text-white", " ",
        "bg-slate-900", "'", " ", "/", ">">>,
      <<"export", " ", "export", " ", "default", " ", "default", " ", "x">>,
      <<"export", " ", "default", "(", ")", "=>", "x">>,
      <<"import", " ", "React", " ", "from", " ", "'react'">>,
      <<"export", " ", "default", " ", "import", " ", "fs", " ", "from", " ",
        "'fs'">>,
      <<"Here", " ", Fence, "jsx", "\n", "function", " ",
        "GeneratedComponent", "(", ")", "{", "}", "\n", Fence, " ", "done">>,
      <<Fence, "\n", "<", "p", " ", "/", ">", "\n", Fence>>,
      <<Fence, "tsx">> }

\* The largest number of pieces of a text handed to a normalizer.
MaxPieces == 2

\* The values of editableCode / generatedCode the preview is computed from.
NormalizerInputs ==
    { JoinLines(ps) :
        ps \in UNION { [1..n -> Pieces] : n \in 0..MaxPieces } }

InitNormalize ==
    /\ AppInit
    /\ source \in NormalizerInputs
    /\ isDark \in BOOLEAN
    /\ stage = "input"
    /\ result = NoResult

\* App.tsx renders the preview of source: previewCode and the scope handed
\* to LiveProvider.
RenderApp ==
    /\ stage = "input"
    /\ result' = [kind |-> "snippet",
                  normalized |-> normalizeGeneratedCode(source),
                  code |-> previewCode(source),
                  scope |-> reactLiveScope]
    /\ stage' = "App.tsx"
    /\ UNCHANGED <<source, isDark>>
    /\ UNCHANGED appVars

\* The build with fence extraction renders the preview of source.
RenderFenceBuild ==
    /\ stage = "input"
    /\ result' = [kind |-> "snippet",
                  normalized |-> normalizeGeneratedCodeFenceBuild(source),
                  code |-> previewCodeFenceBuild(source, isDark),
                  scope |-> fenceBuildScope]
    /\ stage' = "fence build"
    /\ UNCHANGED <<source, isDark>>
    /\ UNCHANGED appVars

\* The build of expressions renders the preview of source.
RenderExpressionBuild ==
    /\ stage = "input"
    /\ result' = [kind |-> "snippet",
                  normalized |-> normalizeGeneratedCodeExpressionBuild(source),
                  code |-> previewCodeExpressionBuild(source, isDark),
                  scope |-> reactScope]
    /\ stage' = "expression build"
    /\ UNCHANGED <<source, isDark>>
    /\ UNCHANGED appVars

NextNormalize == RenderApp \/ RenderFenceBuild \/ RenderExpressionBuild

SpecNormalize == InitNormalize /\ [][NextNormalize]_vars

\* ================================================================ claims
UndoStep == op' \in {"undo", "undo none"}

RedoStep == op' \in {"redo", "redo none"}

CommitStep == op' \in {"commit", "commit none"}

\* A history write: a generation response that delivered code ("push") or a
\* manual save that passed its guard ("commit").
PushStep == op' \in {"push", "commit"}

\* The log a push must produce: the entries 0..cursor followed by snapshot.
Truncated(hist, cursor, snapshot) == Append(SubSeq(hist, 1, cursor + 1), snapshot)

\* C1: after any sequence of push, commit, undo and redo, including pushes
\* made when a generation response resolves, -1 <= cursor < length, and
\* 0 <= cursor whenever the log is not empty.
C1_CursorInRange ==
    /\ -1 <= historyIndex
    /\ historyIndex < Len(history)
    /\ Len(history) > 0 => 0 <= historyIndex

\* A response pushed onto a log that already had entries.
C1_Witness == op = "push" /\ historyIndex >= 1 /\ Len(history) = historyIndex + 1

\* C2: every push on a log whose cursor is c produces the entries 0..c
\* followed by the snapshot, the cursor becomes the new last index, and a
\* redo right after the push is a no-op.
C2_PushTruncatesAtCursor ==
    [][PushStep =>
        /\ history' = Truncated(history, historyIndex, editableCode')
        /\ historyIndex' = Len(history') - 1
        /\ redoIndex(historyIndex', history') = historyIndex']_vars

\* C3: a history write made by a generation response discards exactly the
\* entries after the cursor as it stands at the moment of the write, then
\* appends the new snapshot, whatever the user did while the request was in
\* flight.
C3_ResponseDiscardsRedoBranch ==
    [][op' = "push" =>
        /\ Len(history') = historyIndex + 2
        /\ \A i \in 0..historyIndex : At(history', i) = At(history, i)
        /\ At(history', historyIndex + 1) = generatedCode']_vars

\* C4: no operation removes or changes an entry at an index less than or
\* equal to the cursor held just before the operation.
C4_AppendOnlyBelowCursor ==
    [][\A i \in 0..historyIndex :
          i < Len(history') /\ At(history', i) = At(history, i)]_vars

\* C5: undo is a no-op when cursor <= 0; otherwise it decrements the cursor
\* by exactly one, shows the snapshot now at the cursor in the editor and
\* leaves the log unchanged.
C5_Undo ==
    [][UndoStep =>
        IF historyIndex <= 0
        THEN op' = "undo none" /\ UNCHANGED <<historyIndex, history, editableCode>>
        ELSE /\ op' = "undo"
             /\ historyIndex' = historyIndex - 1
             /\ editableCode' = history[historyIndex]
             /\ history' = history]_vars

\* An undo moved the cursor and the editor shows the entry at the cursor.
C5_Witness ==
    /\ op = "undo"
    /\ undone.idx = historyIndex + 1
    /\ editableCode = At(history, historyIndex)

\* C6: redo is a no-op when the cursor is at or past the last index (the
\* empty log included); otherwise it increments the cursor by exactly one,
\* shows the snapshot now at the cursor in the editor and leaves the log
\* unchanged.
C6_Redo ==
    [][RedoStep =>
        IF historyIndex >= Len(history) - 1
        THEN op' = "redo none" /\ UNCHANGED <<historyIndex, history, editableCode>>
        ELSE /\ op' = "redo"
             /\ historyIndex' = historyIndex + 1
             /\ editableCode' = history[historyIndex + 2]
             /\ history' = history]_vars

\* A redo moved the cursor forward onto an entry.
C6_Witness ==
    /\ op = "redo"
    /\ historyIndex >= 1
    /\ editableCode = At(history, historyIndex)

\* C7: undo on an empty log changes nothing, and a redo right after an undo
\* made at cursor > 0 restores the cursor and yields the snapshot that was at
\* the cursor before the undo.
C7_UndoRedoRoundTrip ==
    /\ [](undone.redone =>
            historyIndex = undone.idx /\ editableCode = undone.snap)
    /\ [][(UndoStep /\ history = <<>>) =>
            op' = "undo none" /\ UNCHANGED <<historyIndex, history, editableCode>>]_vars

\* A redo ran right after an undo that had moved the cursor.
C7_Witness == undone.redone /\ op = "redo" /\ historyIndex = undone.idx

\* C8 as stated: committing any text, empty and whitespace-only text
\* included, has the effect of a push of that text on the log and the cursor.
C8_CommitIsPushForEveryText ==
    [][CommitStep =>
        /\ history' = Truncated(history, historyIndex, editableCode)
        /\ historyIndex' = Len(history') - 1]_vars

\* C8 amended: committing a text whose trimmed content is not empty has the
\* effect of a push of that text on the log and the cursor; committing an
\* empty or whitespace-only text changes neither.
C8_CommitIsPushUnlessBlank ==
    [][CommitStep =>
        IF TrimIsEmpty(editableCode)
        THEN UNCHANGED <<history, historyIndex>>
        ELSE /\ history' = Truncated(history, historyIndex, editableCode)
             /\ historyIndex' = Len(history') - 1]_vars

\* A manual save pushed the editor text onto a log that already had entries.
C8_Witness ==
    /\ op = "commit"
    /\ historyIndex >= 1
    /\ At(history, historyIndex) = editableCode

\* C9: every entry of the history log, generated or saved by hand, is a text
\* for which validate returns safe = true.
C9_HistoryHoldsValidatedOnly ==
    \A i \in 1..Len(history) : ReturnsSafe(history[i])

\* C10: the snippet handed to the sandbox evaluator is derived from a text
\* for which validate returns safe = true.
C10_SandboxGetsValidatedOnly ==
    SandboxReceives(editableCode) => ReturnsSafe(editableCode)

\* ------------------------------------------------ claims on the validator
\* The text refers to name: name stands where the parser makes an
\* Identifier node of it (not as a tag or attribute name of markup).
RefersTo(text, name) ==
    \E i \in 1..Len(text) :
        /\ text[i] = name
        /\ IsName(text[i])
        /\ ~IsJSXTagName(text, i)
        /\ ~IsJSXAttributeName(text, i)

\* A verdict was returned and its reasons hold reason.
HasReason(res, reason) ==
    /\ res.kind = "verdict"
    /\ \E k \in 1..Len(res.reasons) : res.reasons[k] = reason

AccessedNames(text) ==
    { text[i + 1] : i \in { j \in 1..(Len(text) - 1) :
                              text[j] = "." /\ IsName(text[j + 1]) } }
    \cup
    { StringLiteralValue[text[i + 1]] :
        i \in { j \in 2..(Len(text) - 2) :
                  /\ text[j] = "[" /\ text[j + 2] = "]"
                  /\ IsStringLiteral(text[j + 1])
                  /\ (IsName(text[j - 1]) \/ text[j - 1] = "]") } }

\* C12: every member access whose property name is in the forbidden-member
\* set, in dot notation or as a computed string key, records a
\* ForbiddenMember violation and makes the verdict safe = false; member
\* accesses of other property names record no ForbiddenMember.
C12_ForbiddenMemberRecorded ==
    (stage = "validate" /\ Parses(source)) =>
        /\ \A name \in forbiddenMembers :
              name \in AccessedNames(source) <=>
                  HasReason(result, [kind |-> "ForbiddenMember",
                                     detail |-> name])
        /\ (AccessedNames(source) \cap forbiddenMembers # {}) =>
              result.safe = FALSE

\* The positions of the import declarations of text and the module
\* specifier of the declaration at position i.
ImportPositions(text) == { i \in 1..Len(text) : text[i] = "import" }

ModuleSpecifier(text, i) == StatementLiterals(text, i)[1]

\* The positions of the ForbiddenImport violations among reasons.
ForbiddenImportReasons(reasons) ==
    { k \in 1..Len(reasons) : reasons[k].kind = "ForbiddenImport" }

\* C13: validate records a ForbiddenImport violation for an import
\* declaration if and only if its module specifier is not in the
\* allowed-module set: one violation for every import of another module,
\* naming that module, and none for an import of an allowed module.
C13_ForbiddenImportIffNotAllowed ==
    (stage = "validate" /\ Parses(source)) =>
        /\ \A i \in ImportPositions(source) :
              ModuleSpecifier(source, i) \notin allowedModules <=>
                  HasReason(result, [kind |-> "ForbiddenImport",
                                     detail |-> ModuleSpecifier(source, i)])
        /\ \A k \in ForbiddenImportReasons(result.reasons) :
              \E i \in ImportPositions(source) :
                  /\ ModuleSpecifier(source, i) = result.reasons[k].detail
                  /\ ModuleSpecifier(source, i) \notin allowedModules
        /\ Cardinality(ForbiddenImportReasons(result.reasons))
             = Cardinality({ i \in ImportPositions(source) :
                               ModuleSpecifier(source, i) \notin allowedModules })

\* validate ran on a text that imports the allowed module and another one,
\* and recorded a ForbiddenImport for the other one only.
C13_Witness ==
    /\ stage = "validate"
    /\ Parses(source)
    /\ \E i \in ImportPositions(source) : ModuleSpecifier(source, i) = "react"
    /\ \E i \in ImportPositions(source) : ModuleSpecifier(source, i) = "fs"
    /\ result.reasons = <<[kind |-> "ForbiddenImport", detail |-> "fs"]>>

\* C14: a text that cannot be parsed yields an outcome of its own from
\* validate and from the command line: never a verdict, neither with
\* safe = true nor with safe = false, and an outcome the caller tells apart
\* from the verdicts that parseable texts yield (an exception instead of a
\* return value; a non-zero exit status and no verdict on the standard
\* output instead of exit status 0 and a verdict).
C14_ParseFailureIsDistinct ==
    /\ (stage = "validate" /\ ~Parses(source)) =>
          /\ result.kind # "verdict"
          /\ result.kind = "throws"
    /\ (stage = "cli" /\ ~Parses(source)) =>
          /\ result.stdout.kind # "verdict"
          /\ result.status # 0
    /\ (stage = "validate" /\ Parses(source)) => result.kind = "verdict"
    /\ (stage = "cli" /\ Parses(source)) =>
          /\ result.stdout.kind = "verdict"
          /\ result.status = 0

\* The command line ran on a text of two statements of which the second
\* does not parse, and ended without a verdict.
C14_Witness ==
    /\ stage = "cli"
    /\ ~Parses(source)
    /\ Len(source) > 1
    /\ RefersTo(source, "eval")
    /\ result.status = 1
    /\ result.stdout = NoResult

\* The violation a node stands for, <<>> when the node violates no rule.
ViolationOf(node) ==
    IF node.type = "Identifier" /\ node.name \in forbiddenIdentifiers
    THEN <<[kind |-> "ForbiddenIdentifier", detail |-> node.name]>>
    ELSE IF node.type = "MemberExpression" /\ node.name \in forbiddenMembers
    THEN <<[kind |-> "ForbiddenMember", detail |-> node.name]>>
    ELSE IF node.type = "ImportDeclaration" /\ node.name \notin allowedModules
    THEN <<[kind |-> "ForbiddenImport", detail |-> node.name]>>
    ELSE <<>>

\* The violations of the nodes from the first to the n-th, in that order.
RECURSIVE ViolationsInOrder(_, _)
ViolationsInOrder(nodes, n) ==
    IF n = 0 THEN <<>>
    ELSE ViolationsInOrder(nodes, n - 1) \o ViolationOf(nodes[n])

\* The reasons validate gives for each statement of text taken alone, one
\* statement after the other.
RECURSIVE ReasonsByStatement(_, _)
ReasonsByStatement(lines, n) ==
    IF n = 0 THEN <<>>
    ELSE ReasonsByStatement(lines, n - 1) \o validate(lines[n]).reasons

\* C15: the reasons of a verdict are listed in the order in which a single
\* pre-order traversal meets the violating nodes: statement by statement,
\* and inside a statement the member access before the identifiers it
\* encloses; the same text therefore always yields the same reasons in the
\* same order.
C15_ReasonsInTraversalOrder ==
    (stage = "validate" /\ Parses(source)) =>
        /\ result.reasons
             = ViolationsInOrder(parse(source, 1), Len(parse(source, 1)))
        /\ result.reasons
             = ReasonsByStatement(SplitLines(source), Len(SplitLines(source)))
        /\ \A i \in 1..(Len(source) - 2) :
              ( /\ source[i] = "setTimeout" /\ source[i + 1] = "."
                /\ source[i + 2] = "window" ) =>
                  \E k \in 1..(Len(result.reasons) - 1) :
                      /\ result.reasons[k]
                           = [kind |-> "ForbiddenMember", detail |-> "window"]
                      /\ result.reasons[k + 1]
                           = [kind |-> "ForbiddenIdentifier",
                              detail |-> "setTimeout"]
        /\ result = validateCall(source)

\* validate ran on an import of a module that is not allowed followed by
\* setTimeout.window and listed the three kinds of violation in the order
\* of the traversal.
C15_Witness ==
    /\ stage = "validate"
    /\ result.kind = "verdict"
    /\ result.reasons
         = <<[kind |-> "ForbiddenImport", detail |-> "fs"],
             [kind |-> "ForbiddenMember", detail |-> "window"],
             [kind |-> "ForbiddenIdentifier", detail |-> "setTimeout"]>>

\* ---------------------------------------------- claims on the normalizers
\* Some line of text, trimmed, begins with an import statement.
HasImportLine(text) ==
    \E n \in 1..Len(SplitLines(text)) :
        LET trimmed == Trim(SplitLines(text)[n])
        IN Len(trimmed) >= 1 /\ trimmed[1] = "import"

\* text holds an export default token: export, whitespace, default.
HasExportDefault(text) ==
    \E i \in 1..Len(text) :
        /\ text[i] = "export" /\ WsRun(text, i + 1) >= 1
        /\ i + 1 + WsRun(text, i + 1) <= Len(text)
        /\ text[i + 1 + WsRun(text, i + 1)] = "default"

\* C16: for every input the output of normalize holds no line whose trimmed
\* content begins with an import statement and no export default token:
\* the single pass never leaves or creates one.
C16_NoImportNoExportDefault ==
    stage \in {"App.tsx", "expression build"} =>
        /\ ~HasImportLine(result.normalized)
        /\ ~HasExportDefault(result.normalized)

\* C17: when the input holds a fenced block, the output of normalize is
\* derived from the content of the first fenced region alone, whatever
\* stands before the opening marker and after the closing one; without a
\* fence the whole text is used.
C17_OnlyFirstFencedRegion ==
    /\ (stage = "App.tsx" /\ HasFenceMatch(source)) =>
          result.normalized = normalizeGeneratedCode(FenceContent(source))
    /\ (stage = "fence build" /\ HasFenceMatch(source)) =>
          result.normalized
            = normalizeGeneratedCodeFenceBuild(FenceContent(source))

\* The hook at position i of text is qualified with the runtime prefix.
IsQualified(text, i) == i >= 3 /\ text[i - 2] = "React" /\ text[i - 1] = "."

\* C18: in the snippet handed to the sandbox every reference to a standard
\* hook is in the qualified form, and every hook the snippet uses resolves
\* to a key of the scope handed to the sandbox with it.
C18_HooksResolveInScope ==
    stage \in {"App.tsx", "fence build"} =>
        \A i \in 1..Len(result.code) :
            result.code[i] \in HookNames =>
                /\ IsQualified(result.code, i)
                /\ "React" \in result.scope

\* text holds the literal.
HasLiteral(text, literal) == \E i \in 1..Len(text) : text[i] = literal

\* C19: the dark-mode output holds neither text-black nor bg-white and the
\* light-mode output holds neither text-white nor bg-slate-900.
C19_NoLowContrastLiteral ==
    stage \in {"fence build", "expression build"} =>
        /\ isDark => /\ ~HasLiteral(result.code, "text-black")
                     /\ ~HasLiteral(result.code, "bg-white")
        /\ ~isDark => /\ ~HasLiteral(result.code, "text-white")
                      /\ ~HasLiteral(result.code, "bg-slate-900")

\* text ends with tail.
EndsWith(text, tail) ==
    /\ Len(text) >= Len(tail)
    /\ SubSeq(text, Len(text) - Len(tail) + 1, Len(text)) = tail

\* text is markup wrapped in a function without arguments.
IsWrappedMarkup(text) ==
    /\ Len(text) >= 8
    /\ SubSeq(text, 1, 6) = <<"(", ")", " ", "=>", " ", "(">>
    /\ text[Len(text)] = ")"

\* C20: for every input that is not empty, the snippet handed to the
\* sandbox ends with a render invocation of GeneratedComponent when the
\* text declares that component, and is the markup wrapped in a function
\* without arguments when the text declares none; an invocation of
\* GeneratedComponent is never put behind a text that does not declare it.
C20_FinalExpressionFitsText ==
    (stage \in {"App.tsx", "fence build", "expression build"}
        /\ ~TrimIsEmpty(source)) =>
        LET tail == IF stage = "App.tsx" THEN Tail(RenderCall)
                    ELSE IF stage = "fence build" THEN Tail(Tail(LastExpression))
                    ELSE Tail(Tail(ComponentExpression))
        IN IF DeclaresGeneratedComponent(result.normalized)
           THEN EndsWith(result.code, tail)
           ELSE /\ ~EndsWith(result.code, tail)
                /\ (HasLiteral(result.normalized, "<") =>
                        IsWrappedMarkup(result.code))

\* ------------------------------------- claims on the generation requests
\* The step is the arrival of the response of the prompt request, of the
\* screenshot request, of either.
PromptResolveStep == loading /\ ~loading' /\ response' # NoResponse

VisionResolveStep == visionLoading /\ ~visionLoading' /\ response' # NoResponse

ResolveStep == PromptResolveStep \/ VisionResolveStep

\* The response is not 2xx or is not JSON.
IsTransportFailure(resp) ==
    \/ resp.kind = "nonjson"
    \/ resp.kind = "json" /\ ~resp.ok

\* C21: a response that is not 2xx or not JSON is a transport failure
\* whatever its body holds: an error message is set, and the history log,
\* the cursor and the editor content stay as they are.
C21_TransportFailureChangesNothing ==
    [][(ResolveStep /\ IsTransportFailure(response')) =>
          /\ previewError' # "null"
          /\ history' = history
          /\ historyIndex' = historyIndex
          /\ editableCode' = editableCode]_vars

\* C22: whenever the service responds successfully but supplies no code, on
\* the prompt path as on the screenshot path, an error message is set when
\* the request completes.
C22_NoCodeSetsError ==
    [][(/\ ResolveStep
        /\ response'.kind = "json" /\ response'.ok
        /\ ~Truthy(response'.code)) =>
          previewError' # "null"]_vars

\* C23: in every reachable state at most one generation request, by prompt
\* or by screenshot, is in flight.
C23_OneRequestInFlight == ~(loading /\ visionLoading)

\* The step is the arrival of a response with code directly after the
\* arrival of the other request's response with code: the two requests
\* overlapped and both resolved with code.
SecondOfTwoPushes ==
    /\ response # NoResponse /\ DeliversCode(response)
    /\ ResolveStep /\ DeliversCode(response')

\* C24: when two requests overlap and both resolve with code, the last
\* response wins: the editor and the snapshot at the cursor hold its code,
\* and the write of the earlier response is overwritten, not kept as one
\* more entry of the log.
C24_LastResponseWins ==
    [][SecondOfTwoPushes =>
          /\ editableCode' = response'.code
          /\ At(history', historyIndex') = response'.code
          /\ history' = Append(SubSeq(history, 1, Len(history) - 1),
                               response'.code)]_vars

\* The step is the arrival of the response of a request directly after the
\* other, newer, request was issued.
StaleResolveStep ==
    \/ op = "vision" /\ PromptResolveStep
    \/ op = "generate" /\ VisionResolveStep

\* C25: a response that arrives after a newer request was issued is
\* ignored: it changes neither the history log, the cursor, the editor
\* content nor the generated code on display.
C25_StaleResponseIgnored ==
    [][StaleResolveStep =>
          /\ history' = history
          /\ historyIndex' = historyIndex
          /\ editableCode' = editableCode
          /\ generatedCode' = generatedCode]_vars

\* C26: a response that carries an error field is a generation failure:
\* the error is shown, no snapshot is pushed and the editor content is not
\* replaced, even when the response carries code as well.
C26_ErrorFieldPushesNothing ==
    [][(PromptResolveStep /\ response'.kind = "json" /\ response'.error) =>
          /\ previewError' = "data.error"
          /\ history' = history
          /\ historyIndex' = historyIndex
          /\ editableCode' = editableCode]_vars

\* C27: a request that delivers no code (the fetch rejects, the response is
\* not JSON, carries only an error, or carries no code) leaves the editor
\* content, the history log and the cursor as they were.
C27_FailureLeavesEditorAndLog ==
    [][(ResolveStep /\ ~DeliversCode(response')) =>
          /\ editableCode' = editableCode
          /\ history' = history
          /\ historyIndex' = historyIndex]_vars

\* C28: every request that is started completes in the end with its
\* loading flag cleared, whatever the outcome of the fetch; the flag is set
\* by the start of the request, stays set until the response arrives, and
\* the arrival of any response clears the flag of its request and leaves
\* the flag of the other request alone.  ("A set flag is cleared in the end",
\* loading ~> ~loading, is the same as "the flag is clear again and again".)
C28_RequestCompletes ==
    /\ []<>(~loading)
    /\ []<>(~visionLoading)
    /\ [][/\ op' = "generate" => loading'
          /\ op' = "vision" => visionLoading'
          /\ (loading /\ ~loading') => response' # NoResponse
          /\ (visionLoading /\ ~visionLoading') => response' # NoResponse
          /\ response' # NoResponse =>
                \/ loading /\ ~loading' /\ visionLoading' = visionLoading
                \/ visionLoading /\ ~visionLoading' /\ loading' = loading]_vars

\* A fetch was rejected while both requests were in flight and one of the
\* two flags is cleared.
C28_Witness ==
    /\ response # NoResponse
    /\ response.kind = "reject"
    /\ loading # visionLoading
    /\ previewError = "err.message"

\* -------------------------------------- further claims on the validator
\* The names of the forbidden-member set that stand for global browser
\* state.
BrowserGlobals == forbiddenMembers \ {"dangerouslySetInnerHTML"}

\* text uses name as a bare identifier or as the object of a member access:
\* an identifier that is not the property of a member access.
UsesGlobal(text, name) ==
    \E i \in 1..Len(text) :
        /\ text[i] = name
        /\ ~IsJSXTagName(text, i)
        /\ ~IsJSXAttributeName(text, i)
        /\ ~(i >= 2 /\ text[i - 1] = ".")
        /\ ~(i >= 2 /\ text[i - 1] = "[")

\* C29: validate returns safe = false for every parseable text that reaches
\* global browser state through a forbidden name used as a bare identifier
\* or as the object of a member access, not only as the accessed property.
C29_GlobalObjectRejected ==
    (stage = "validate" /\ Parses(source)) =>
        \A name \in BrowserGlobals :
            UsesGlobal(source, name) =>
                result.kind = "verdict" /\ result.safe = FALSE

\* text uses dangerouslySetInnerHTML as an attribute name of a markup
\* element.
HasSinkAttribute(text) ==
    \E i \in 1..Len(text) :
        text[i] = "dangerouslySetInnerHTML" /\ IsJSXAttributeName(text, i)

\* C30: validate returns safe = false for every parseable text that uses
\* dangerouslySetInnerHTML as an attribute name of a markup element.
C30_SinkAttributeRejected ==
    (stage = "validate" /\ Parses(source) /\ HasSinkAttribute(source)) =>
        result.kind = "verdict" /\ result.safe = FALSE

====
